---- MODULE Spec2Model ----
(***************************************************************************)
(* Model of uploadtos3.py: the S3Uploader upload state machine.            *)
(*                                                                         *)
(* The storage service (boto3 client) is the environment: every call to it *)
(* either returns ("ok"), raises botocore's ClientError ("ClientError") or  *)
(* raises some other exception ("Error": a transport error, a timeout).    *)
(* Opening and reading the local file either works or raises OSError,      *)
(* which is not a ClientError ("Error").                                   *)
(***************************************************************************)
EXTENDS Integers, Sequences, FiniteSets, TLC

(***************************************************************************)
(* Bounds of the model.                                                    *)
(***************************************************************************)
MaxChunks == 3
MaxRetries == 3
MaxFiles == 2

(***************************************************************************)
(* Program constants.                                                      *)
(***************************************************************************)
multipart_threshold == 100 * 1024 * 1024
chunk_size == 50 * 1024 * 1024
DefaultMaxRetries == 3

VARIABLES
    entry,        \* the function the caller invoked
    exists,       \* os.path.exists(file_path)
    file_size,    \* os.path.getsize(file_path)
    max_retries,  \* upload_file's max_retries argument
    pc,           \* position in the code
    attempt,      \* upload_file's loop variable
    success,      \* what the strategy handed to upload_file: "True", "False", "raise"
    upload_id,    \* upload_file_multipart's local upload_id (Unbound before line 67)
    part_number,  \* upload_file_multipart's local part_number
    parts,        \* upload_file_multipart's local parts list
    pos,          \* read offset of the open file
    chunk,        \* length of the chunk read last
    next_id,      \* the service's next fresh upload id
    calls,        \* the requests the current strategy invocation has sent, in order
    invocations,  \* number of strategy invocations so far
    outcomes,     \* outcome of each finished strategy invocation
    log,          \* the log lines the current upload_file call has written, in order
    result,       \* what the S3Uploader method handed back: "none" while running
    key,          \* the key argument, then local, of the S3Uploader method
    prior_ids,    \* the upload ids the service issued to earlier strategy invocations
    call_base,    \* the service's next fresh upload id when upload_file was called
    mpc,          \* position in main or upload_folder_recursive
    args,         \* main's parsed arguments
    platform,     \* the host's path convention: "posix" or "nt"
    prefix,       \* upload_folder_recursive's prefix argument
    tree,         \* the regular files under folder_path, as relative paths
    todo,         \* the files os.walk has not yielded yet
    submitted,    \* the upload_file calls of the walk, each with its result
    presigned,    \* the generate_presigned_url requests sent, in order
    size_bytes,   \* format_file_size's argument
    human_size    \* format_file_size's return value

\* The state of main, of the folder walk and of format_file_size.
outer == <<mpc, args, platform, prefix, tree, todo, submitted, presigned, size_bytes,
           human_size, call_base>>

vars == <<entry, exists, file_size, max_retries, pc, attempt, success, upload_id,
          part_number, parts, pos, chunk, next_id, calls, invocations, outcomes,
          log, result, key, prior_ids, outer>>

Unbound == 0

Min(a, b) == IF a < b THEN a ELSE b

Max(a, b) == IF a > b THEN a ELSE b

\* Sizes around every chunk boundary up to MaxChunks chunks.
FileSizes ==
    { s \in UNION { {k * chunk_size, k * chunk_size + 1} : k \in 0..MaxChunks } :
        s <= MaxChunks * chunk_size }

CallOutcomes == {"ok", "ClientError", "Error"}
FileOutcomes == {"ok", "Error"}

\* One request to the storage service, as the service saw it.
Call(op, uid, pn, etag, ps, out) ==
    [op |-> op, Key |-> key, UploadId |-> uid, PartNumber |-> pn, ETag |-> etag,
     Parts |-> ps, outcome |-> out]

\* The tag the service returns for an uploaded part: opaque, and different for
\* every part of a session.
FreshETag == 100 * upload_id + Len(calls)

\* Line 133: the strategy selection rule.
UsesMultipartAtOrAbove(size) == size >= multipart_threshold
UsesMultipart(size) == size > multipart_threshold

\* Line 76: file.read(chunk_size) returns at most chunk_size bytes of what is left.
ReadLenFullChunksOnly(size, offset) ==
    IF size - offset >= chunk_size THEN chunk_size ELSE 0
ReadLenNeverEmpty(size, offset) == chunk_size
ReadLen(size, offset) == Min(chunk_size, size - offset)

\* Line 92: the number of the next part.
NextPartNumberSame(pn) == pn
NextPartNumber(pn) == pn + 1

\* Lines 59-67: upload_id is a local of upload_file_multipart, unbound when an
\* invocation starts whatever an earlier invocation left in it.
LocalUploadIdKept(old) == old
LocalUploadId(old) == Unbound

\* Lines 87-90: the part descriptor appended for a part.
PartDescriptor(etag, pn) == [ETag |-> etag, PartNumber |-> pn]

\* Lines 106-111: the requests the except handler sends. With upload_id unbound
\* (initiation failed) the argument list raises UnboundLocalError before any
\* request is sent, and the bare except swallows it.
AbortRequestsAlways(uid, out) ==
    <<Call("abort_multipart_upload", uid, 0, 0, <<>>, out)>>
AbortRequestsNever(uid, out) == <<>>
AbortRequests(uid, out) ==
    IF uid = Unbound
    THEN <<>>
    ELSE <<Call("abort_multipart_upload", uid, 0, 0, <<>>, out)>>

\* Lines 112-114: the bare except swallows every abort failure; return False.
ExceptReturnClientErrorOnly(out) == IF out = "Error" THEN "raise" ELSE "False"
ExceptReturn(out) == "False"

\* Line 131: range(max_retries) has another value after a attempts.
MoreAttemptsInclusive(a, n) == a <= n
MoreAttempts(a, n) == a < n

\* Line 148: is this the last attempt?
IsLastAttemptFirst(a, n) == a = 0
IsLastAttempt(a, n) == a = n - 1

\* Line 118: the precondition of upload_file.
FileMissingNever(e) == FALSE
FileMissing(e) == ~e


(***************************************************************************)
(* Keys and paths are sequences of characters.                             *)
(***************************************************************************)
\* Python's None, as a key argument.
NoneKey == <<"None">>

\* os.path.basename(file_path) of the file the caller named.
Basename == <<"f">>

\* Lines 122-123: upload_file's key when none was supplied.
KeyOrBasename(k) == IF k = NoneKey THEN Basename ELSE k

\* Line 200: args.key or os.path.basename(args.file).
PresignKey(k) == IF k = NoneKey \/ k = <<>> THEN Basename ELSE k

\* Line 194: args.key or "".
KeyOrEmpty(k) == IF k = NoneKey THEN <<>> ELSE k

\* The functions that call upload_file.
UploadFileCallers == {"upload_file", "upload_folder_recursive", "main"}

\* os.sep of the host.
Sep(pf) == IF pf = "nt" THEN "\\" ELSE "/"

\* The path whose components are comps, written with separator sep.
RECURSIVE JoinWith(_, _)
JoinWith(comps, sep) ==
    IF Len(comps) = 1
    THEN Head(comps)
    ELSE Head(comps) \o <<sep>> \o JoinWith(Tail(comps), sep)

\* Line 172: os.path.relpath(file_path, folder_path) of a file under the root.
Relpath(path, pf) == JoinWith(path, Sep(pf))

\* Line 173: os.path.join(prefix, relative_path) for a relative second
\* argument: no separator is added after an empty prefix or after one that
\* ends in a separator.
PathJoin(pre, rel, pf) ==
    IF pre = <<>>
    THEN rel
    ELSE IF pre[Len(pre)] = "/" \/ (pf = "nt" /\ pre[Len(pre)] \in {"\\", ":"})
         THEN pre \o rel
         ELSE pre \o <<Sep(pf)>> \o rel

\* Line 173: str.replace("\\", "/").
ReplaceBackslash(str) ==
    [i \in 1..Len(str) |-> IF str[i] = "\\" THEN "/" ELSE str[i]]

\* Lines 171-173: the key of the file at relative path `path`.
S3Key(pre, path, pf) == ReplaceBackslash(PathJoin(pre, Relpath(path, pf), pf))

\* The files a root may hold, as sequences of names. A POSIX file name may
\* contain a backslash; a Windows one may not.
FilePaths(pf) ==
    {<<<<"a">>>>, <<<<"s">>, <<"b">>>>}
        \cup (IF pf = "posix" THEN {<<<<"s", "\\", "b">>>>} ELSE {})

Trees(pf) == {t \in SUBSET FilePaths(pf) : Cardinality(t) <= MaxFiles}

Prefixes == {<<>>, <<"p">>, <<"p", "/">>}

\* tree before os.walk has listed the root.
NoTree == {<<>>}

\* Sizes of the files main and the folder walk upload: one for each strategy.
CallerSizes == {multipart_threshold, multipart_threshold + 1}

\* The directory of a file, as the names leading to it from the root.
DirOf(path) == SubSeq(path, 1, Len(path) - 1)

\* d is a proper ancestor of directory e.
IsAncestor(d, e) == Len(d) < Len(e) /\ SubSeq(e, 1, Len(d)) = d

\* Line 169: os.walk is top-down: it yields the files of a directory before
\* those of the directories below it, in no other fixed order.
WalkMayYield(f, rest) == \A g \in rest : ~IsAncestor(DirOf(g), DirOf(f))

\* Line 175: the walk goes on whatever upload_file returned.
WalkContinuesOnSuccess(r) == r = "True"
WalkContinues(r) == TRUE

\* Line 199: the condition under which main requests a pre-signed URL.
PresignWantedIgnoringSuccess(ok, flag, recursive) == flag /\ ~recursive
PresignWanted(ok, flag, recursive) == ok /\ flag /\ ~recursive

(***************************************************************************)
(* format_file_size, lines 37-43. A byte count is written in base 1024,    *)
(* lowest digit first; dividing by 1024.0 moves the point one digit up,    *)
(* which is exact in binary floating point below 2^53.                     *)
(***************************************************************************)
DigitSamples == {0, 1, 128, 1018, 1019, 1023}

\* Byte counts below 2^53: six digits, the highest at most 7.
ByteCounts == {ds \in [1..6 -> DigitSamples \cup {7}] : ds[6] \in {0, 7} /\ \A i \in 1..5 : ds[i] # 7}

NoSize == <<>>

Units == <<"B", "KB", "MB", "GB">>

\* Line 40: size_bytes < 1024.0 after k divisions.
Below1024(ds, k) == \A i \in (k + 2)..Len(ds) : ds[i] = 0

\* The integer part of size_bytes after k divisions (k = 4 is the last).
WholePart(ds, k) == IF k < 4 THEN ds[k + 1] ELSE ds[5] + 1024 * ds[6]

\* 100 times the fraction whose digits are fr (lowest first), carry c coming
\* in from below: the integer part and the digits of what is left.
RECURSIVE Times100(_, _)
Times100(fr, c) ==
    IF fr = <<>>
    THEN [carry |-> c, rem |-> <<>>]
    ELSE LET t == 100 * Head(fr) + c
             r == Times100(Tail(fr), t \div 1024)
         IN  [carry |-> r.carry, rem |-> <<t % 1024>> \o r.rem]

\* Lines 41, 43: the value as f"{size_bytes:.2f}" prints it, in hundredths:
\* the exact value rounded to the nearest hundredth, ties to even.
Hundredths(ds, k) ==
    LET m    == Times100(SubSeq(ds, 1, k), 0)
        base == 100 * WholePart(ds, k) + m.carry
        top  == IF k = 0 THEN 0 ELSE m.rem[k]
        low  == \E i \in 1..(k - 1) : m.rem[i] # 0
    IN  IF top > 512 \/ (top = 512 /\ low) THEN base + 1
        ELSE IF top = 512 /\ base % 2 = 1 THEN base + 1
        ELSE base

\* Lines 39-43: the loop over the units, k divisions done so far.
RECURSIVE FormatLoop(_, _)
FormatLoop(ds, k) ==
    IF k < 4
    THEN IF Below1024(ds, k)
         THEN [unit |-> Units[k + 1], hundredths |-> Hundredths(ds, k)]
         ELSE FormatLoop(ds, k + 1)
    ELSE [unit |-> "TB", hundredths |-> Hundredths(ds, 4)]

format_file_size(ds) == FormatLoop(ds, 0)

NoText == [unit |-> "", hundredths |-> 0]

(***************************************************************************)
(* Init: the caller invokes one S3Uploader method (upload_file,            *)
(* upload_file_multipart, upload_file_simple, format_file_size),           *)
(* upload_folder_recursive, or main.                                       *)
(***************************************************************************)
Init ==
    /\ entry \in {"upload_file", "upload_file_multipart", "upload_file_simple",
                  "format_file_size", "upload_folder_recursive", "main"}
    /\ CASE entry = "upload_file" ->
              /\ file_size \in FileSizes
              /\ exists \in BOOLEAN
              /\ (~exists => file_size = 0)
              /\ max_retries \in -1..MaxRetries
              /\ pc = "uf_start"
              /\ invocations = 0
         [] entry = "upload_file_multipart" ->
              /\ file_size \in FileSizes
              /\ exists = TRUE
              /\ max_retries = 0
              /\ pc = "mp_create"
              /\ invocations = 1
         [] entry = "upload_file_simple" ->
              /\ file_size \in {0, multipart_threshold}
              /\ exists = TRUE
              /\ max_retries = 0
              /\ pc = "sp_open"
              /\ invocations = 1
         [] entry = "format_file_size" ->
              /\ file_size = 0
              /\ exists = TRUE
              /\ max_retries = 0
              /\ pc = "fmt"
              /\ invocations = 0
         [] OTHER ->
              /\ file_size = 0
              /\ exists = TRUE
              /\ max_retries = 0
              /\ pc = "idle"
              /\ invocations = 0
    /\ key = <<"k">>
    /\ mpc = CASE entry = "main" -> "main"
               [] entry = "upload_folder_recursive" -> "walk_start"
               [] OTHER -> "none"
    /\ IF entry = "main"
       THEN args \in [recursive : BOOLEAN, presigned_url : BOOLEAN,
                      key : {NoneKey, <<>>, <<"k">>}]
       ELSE args = [recursive |-> FALSE, presigned_url |-> FALSE, key |-> NoneKey]
    /\ IF entry = "upload_folder_recursive"
       THEN platform \in {"posix", "nt"}
       ELSE platform = "posix"
    /\ IF entry = "upload_folder_recursive" THEN prefix \in Prefixes ELSE prefix = <<>>
    /\ IF entry = "format_file_size" THEN size_bytes \in ByteCounts ELSE size_bytes = NoSize
    /\ human_size = NoText
    /\ tree = NoTree
    /\ todo = {}
    /\ submitted = <<>>
    /\ presigned = <<>>
    /\ prior_ids = {}
    /\ call_base = 1
    /\ attempt = 0
    /\ success = "none"
    /\ upload_id = Unbound
    /\ part_number = 0
    /\ parts = <<>>
    /\ pos = 0
    /\ chunk = 0
    /\ next_id = 1
    /\ calls = <<>>
    /\ outcomes = <<>>
    /\ log = <<>>
    /\ result = "none"

\* The strategy (simple or multipart) hands r to its caller.
StrategyReturns(r) ==
    /\ outcomes' = Append(outcomes, r)
    /\ IF entry \in UploadFileCallers
       THEN /\ pc' = "uf_after"
            /\ success' = r
            /\ result' = result
       ELSE /\ pc' = "done"
            /\ success' = success
            /\ result' = r

(***************************************************************************)
(* upload_file, lines 116-128: preconditions, checked once.                *)
(***************************************************************************)
UploadFileStart ==
    /\ pc = "uf_start"
    /\ IF FileMissing(exists)
       THEN /\ log' = Append(log, "File not found")
            /\ pc' = "done"
            /\ result' = "False"
            /\ key' = key
       ELSE /\ log' = Append(log, "Starting upload")
            /\ key' = KeyOrBasename(key)
            /\ IF MoreAttempts(attempt, max_retries)
               THEN pc' = "uf_loop" /\ result' = result
               ELSE pc' = "done" /\ result' = "False"
    /\ UNCHANGED <<entry, exists, file_size, max_retries, attempt, success, upload_id,
                   part_number, parts, pos, chunk, next_id, calls, invocations,
                   outcomes>>
    /\ UNCHANGED <<prior_ids, outer>>

(***************************************************************************)
(* upload_file, lines 131-138: one iteration picks the strategy by size.   *)
(***************************************************************************)
UploadFileAttempt ==
    /\ pc = "uf_loop"
    /\ MoreAttempts(attempt, max_retries)
    /\ invocations' = invocations + 1
    /\ IF UsesMultipart(file_size)
       THEN /\ log' = Append(log, "Using multipart upload")
            /\ pc' = "mp_create"
       ELSE /\ log' = Append(log, "Using simple upload")
            /\ pc' = "sp_open"
    /\ upload_id' = LocalUploadId(upload_id)
    /\ prior_ids' = prior_ids \cup ({upload_id} \ {Unbound})
    /\ part_number' = 0
    /\ parts' = <<>>
    /\ pos' = 0
    /\ chunk' = 0
    /\ calls' = <<>>
    /\ UNCHANGED <<entry, exists, file_size, max_retries, attempt, success, next_id,
                   outcomes, result>>
    /\ UNCHANGED <<key, outer>>

(***************************************************************************)
(* upload_file, lines 140-152: what the loop does with the attempt's       *)
(* outcome, up to the next iteration or the return.                        *)
(***************************************************************************)
UploadFileAfterAttempt ==
    /\ pc = "uf_after"
    /\ CASE success = "True" ->
              /\ log' = Append(log, "Upload completed successfully")
              /\ pc' = "done"
              /\ result' = "True"
              /\ attempt' = attempt
         [] success = "False" ->
              /\ log' = Append(log, "Upload attempt failed, retrying...")
              /\ attempt' = attempt + 1
              /\ IF MoreAttempts(attempt + 1, max_retries)
                 THEN pc' = "uf_loop" /\ result' = result
                 ELSE pc' = "done" /\ result' = "False"
         [] success = "raise" ->
              IF IsLastAttempt(attempt, max_retries)
              THEN /\ log' = log \o <<"Upload attempt failed", "All attempts failed">>
                   /\ pc' = "done"
                   /\ result' = "False"
                   /\ attempt' = attempt
              ELSE /\ log' = Append(log, "Upload attempt failed")
                   /\ attempt' = attempt + 1
                   /\ IF MoreAttempts(attempt + 1, max_retries)
                      THEN pc' = "uf_loop" /\ result' = result
                      ELSE pc' = "done" /\ result' = "False"
    /\ success' = "none"
    /\ UNCHANGED <<entry, exists, file_size, max_retries, upload_id, part_number,
                   parts, pos, chunk, next_id, calls, invocations, outcomes>>
    /\ UNCHANGED <<key, prior_ids, outer>>

(***************************************************************************)
(* upload_file_simple, line 48: open the file.                             *)
(***************************************************************************)
SimpleOpen ==
    /\ pc = "sp_open"
    /\ \E out \in FileOutcomes :
         IF out = "ok"
         THEN /\ pc' = "sp_put"
              /\ UNCHANGED <<success, result, outcomes>>
         ELSE StrategyReturns("raise")
    /\ UNCHANGED <<entry, exists, file_size, max_retries, attempt, upload_id,
                   part_number, parts, pos, chunk, next_id, calls, invocations, log>>
    /\ UNCHANGED <<key, prior_ids, outer>>

(***************************************************************************)
(* upload_file_simple, lines 49-57: the put and its except clause.         *)
(***************************************************************************)
PutObject ==
    /\ pc = "sp_put"
    /\ \E out \in CallOutcomes :
         /\ calls' = Append(calls, Call("put_object", 0, 0, 0, <<>>, out))
         /\ CASE out = "ok" -> StrategyReturns("True")
              [] out = "ClientError" -> StrategyReturns("False")
              [] out = "Error" -> StrategyReturns("raise")
    /\ UNCHANGED <<entry, exists, file_size, max_retries, attempt, upload_id,
                   part_number, parts, pos, chunk, next_id, invocations, log>>
    /\ UNCHANGED <<key, prior_ids, outer>>

(***************************************************************************)
(* upload_file_multipart, lines 63-72: initiation.                         *)
(***************************************************************************)
CreateMultipartUpload ==
    /\ pc = "mp_create"
    /\ \E out \in CallOutcomes :
         /\ calls' = Append(calls,
                Call("create_multipart_upload",
                     IF out = "ok" THEN next_id ELSE Unbound, 0, 0, <<>>, out))
         /\ CASE out = "ok" ->
                   /\ upload_id' = next_id
                   /\ next_id' = next_id + 1
                   /\ part_number' = 1
                   /\ parts' = <<>>
                   /\ pc' = "mp_open"
                   /\ UNCHANGED <<success, result, outcomes>>
              [] out = "ClientError" ->
                   /\ pc' = "mp_except"
                   /\ UNCHANGED <<upload_id, next_id, part_number, parts, success,
                                  result, outcomes>>
              [] out = "Error" ->
                   /\ StrategyReturns("raise")
                   /\ UNCHANGED <<upload_id, next_id, part_number, parts>>
    /\ UNCHANGED <<entry, exists, file_size, max_retries, attempt, pos, chunk,
                   invocations, log>>
    /\ UNCHANGED <<key, prior_ids, outer>>

(***************************************************************************)
(* upload_file_multipart, line 74: open the file.                          *)
(***************************************************************************)
MultipartOpen ==
    /\ pc = "mp_open"
    /\ \E out \in FileOutcomes :
         IF out = "ok"
         THEN /\ pc' = "mp_read"
              /\ pos' = 0
              /\ UNCHANGED <<success, result, outcomes>>
         ELSE /\ StrategyReturns("raise")
              /\ pos' = pos
    /\ UNCHANGED <<entry, exists, file_size, max_retries, attempt, upload_id,
                   part_number, parts, chunk, next_id, calls, invocations, log>>
    /\ UNCHANGED <<key, prior_ids, outer>>

(***************************************************************************)
(* upload_file_multipart, lines 76-78: read the next chunk; an empty read  *)
(* leaves the loop.                                                        *)
(***************************************************************************)
ReadChunk ==
    /\ pc = "mp_read"
    /\ \E out \in FileOutcomes :
         IF out = "ok"
         THEN /\ chunk' = ReadLen(file_size, pos)
              /\ pos' = pos + ReadLen(file_size, pos)
              /\ pc' = IF ReadLen(file_size, pos) = 0 THEN "mp_complete" ELSE "mp_part"
              /\ UNCHANGED <<success, result, outcomes>>
         ELSE /\ StrategyReturns("raise")
              /\ UNCHANGED <<chunk, pos>>
    /\ UNCHANGED <<entry, exists, file_size, max_retries, attempt, upload_id,
                   part_number, parts, next_id, calls, invocations, log>>
    /\ UNCHANGED <<key, prior_ids, outer>>

(***************************************************************************)
(* upload_file_multipart, lines 80-92: upload the chunk read.              *)
(***************************************************************************)
UploadPart ==
    /\ pc = "mp_part"
    /\ \E out \in CallOutcomes :
         /\ calls' = Append(calls,
                Call("upload_part", upload_id, part_number,
                     IF out = "ok" THEN FreshETag ELSE 0, <<>>, out))
         /\ CASE out = "ok" ->
                   /\ parts' = Append(parts, PartDescriptor(FreshETag, part_number))
                   /\ part_number' = NextPartNumber(part_number)
                   /\ pc' = "mp_read"
                   /\ UNCHANGED <<success, result, outcomes>>
              [] out = "ClientError" ->
                   /\ pc' = "mp_except"
                   /\ UNCHANGED <<parts, part_number, success, result, outcomes>>
              [] out = "Error" ->
                   /\ StrategyReturns("raise")
                   /\ UNCHANGED <<parts, part_number>>
    /\ UNCHANGED <<entry, exists, file_size, max_retries, attempt, upload_id, pos,
                   chunk, next_id, invocations, log>>
    /\ UNCHANGED <<key, prior_ids, outer>>

(***************************************************************************)
(* upload_file_multipart, lines 95-101: completion.                        *)
(***************************************************************************)
CompleteMultipartUpload ==
    /\ pc = "mp_complete"
    /\ \E out \in CallOutcomes :
         /\ calls' = Append(calls,
                Call("complete_multipart_upload", upload_id, 0, 0, parts, out))
         /\ CASE out = "ok" -> StrategyReturns("True")
              [] out = "ClientError" ->
                   pc' = "mp_except" /\ UNCHANGED <<success, result, outcomes>>
              [] out = "Error" -> StrategyReturns("raise")
    /\ UNCHANGED <<entry, exists, file_size, max_retries, attempt, upload_id,
                   part_number, parts, pos, chunk, next_id, invocations, log>>
    /\ UNCHANGED <<key, prior_ids, outer>>

(***************************************************************************)
(* upload_file_multipart, lines 103-114: the except ClientError clause.    *)
(***************************************************************************)
MultipartExcept ==
    /\ pc = "mp_except"
    /\ \E out \in CallOutcomes :
         /\ calls' = calls \o AbortRequests(upload_id, out)
         /\ StrategyReturns(ExceptReturn(out))
    /\ UNCHANGED <<entry, exists, file_size, max_retries, attempt, upload_id,
                   part_number, parts, pos, chunk, next_id, invocations, log>>
    /\ UNCHANGED <<key, prior_ids, outer>>

(***************************************************************************)
(* format_file_size, lines 37-43, applied to its argument.                 *)
(***************************************************************************)
FormatFileSize ==
    /\ pc = "fmt"
    /\ human_size' = format_file_size(size_bytes)
    /\ pc' = "done"
    /\ UNCHANGED <<entry, exists, file_size, max_retries, attempt, success, upload_id,
                   part_number, parts, pos, chunk, next_id, calls, invocations,
                   outcomes, log, result, key, prior_ids, mpc, args, platform,
                   prefix, tree, todo, submitted, presigned, size_bytes, call_base>>

\* main or the walk calls uploader.upload_file(path, bucket, k) on a file of
\* size sz that exists iff e: max_retries takes its default, and the locals
\* of the methods start afresh.
CallUploadFile(k, e, sz) ==
    /\ key' = k
    /\ exists' = e
    /\ file_size' = sz
    /\ max_retries' = DefaultMaxRetries
    /\ pc' = "uf_start"
    /\ attempt' = 0
    /\ success' = "none"
    /\ invocations' = 0
    /\ outcomes' = <<>>
    /\ calls' = <<>>
    /\ log' = <<>>
    /\ result' = "none"
    /\ call_base' = next_id
    /\ upload_id' = Unbound
    /\ prior_ids' = prior_ids \cup ({upload_id} \ {Unbound})
    /\ part_number' = 0
    /\ parts' = <<>>
    /\ pos' = 0
    /\ chunk' = 0
    /\ UNCHANGED <<entry, next_id>>

\* Nothing of the S3Uploader method's state changes.
UploaderUnchanged ==
    UNCHANGED <<entry, exists, file_size, max_retries, pc, attempt, success,
                upload_id, part_number, parts, pos, chunk, next_id, calls,
                invocations, outcomes, log, result, key, prior_ids, call_base>>

(***************************************************************************)
(* upload_folder_recursive, line 169: os.walk lists the tree under the     *)
(* root.                                                                   *)
(***************************************************************************)
WalkStart ==
    /\ mpc = "walk_start"
    /\ tree' \in Trees(platform)
    /\ todo' = tree'
    /\ mpc' = "walk"
    /\ UploaderUnchanged
    /\ UNCHANGED <<args, platform, prefix, submitted, presigned, size_bytes,
                   human_size>>

(***************************************************************************)
(* upload_folder_recursive, lines 169-175: the next file of the walk, its  *)
(* key, and the call of upload_file; or the end of the walk.               *)
(***************************************************************************)
WalkNext ==
    /\ mpc = "walk"
    /\ IF todo = {}
       THEN /\ mpc' = "walk_done"
            /\ UploaderUnchanged
            /\ UNCHANGED <<todo, submitted>>
       ELSE \E f \in todo : \E sz \in CallerSizes :
              /\ WalkMayYield(f, todo)
              /\ todo' = todo \ {f}
              /\ submitted' = Append(submitted,
                     [path |-> f, key |-> S3Key(prefix, f, platform),
                      result |-> "none"])
              /\ CallUploadFile(S3Key(prefix, f, platform), TRUE, sz)
              /\ mpc' = "walk_call"
    /\ UNCHANGED <<args, platform, prefix, tree, presigned, size_bytes, human_size>>

(***************************************************************************)
(* upload_folder_recursive, line 175: upload_file returns; its result is   *)
(* dropped.                                                                *)
(***************************************************************************)
WalkReturn ==
    /\ mpc = "walk_call"
    /\ pc = "done"
    /\ submitted' = [submitted EXCEPT ![Len(submitted)].result = result]
    /\ mpc' = IF WalkContinues(result) THEN "walk" ELSE "walk_done"
    /\ UploaderUnchanged
    /\ UNCHANGED <<args, platform, prefix, tree, todo, presigned, size_bytes,
                   human_size>>

(***************************************************************************)
(* main, lines 191-197: folder mode or single-file mode.                   *)
(***************************************************************************)
MainStart ==
    /\ mpc = "main"
    /\ \E isdir \in BOOLEAN :
         IF args.recursive /\ isdir
         THEN /\ prefix' = KeyOrEmpty(args.key)
              /\ mpc' = "walk_start"
              /\ UploaderUnchanged
         ELSE /\ \E e \in BOOLEAN : \E sz \in CallerSizes :
                   /\ e \/ sz = multipart_threshold
                   /\ CallUploadFile(args.key, e, IF e THEN sz ELSE 0)
              /\ prefix' = prefix
              /\ mpc' = "single_call"
    /\ UNCHANGED <<args, platform, tree, todo, submitted, presigned, size_bytes,
                   human_size>>

(***************************************************************************)
(* main, lines 199-205: after the single-file upload, the pre-signed URL   *)
(* if wanted. An error of generate_presigned_url that is not a ClientError *)
(* leaves main.                                                            *)
(***************************************************************************)
MainAfterUpload ==
    /\ mpc = "single_call"
    /\ pc = "done"
    /\ IF PresignWanted(result = "True", args.presigned_url, args.recursive)
       THEN \E out \in CallOutcomes :
              /\ presigned' = Append(presigned,
                     [Key |-> PresignKey(args.key), outcome |-> out])
              /\ mpc' = IF out = "Error" THEN "raised" ELSE "end"
       ELSE /\ presigned' = presigned
            /\ mpc' = "end"
    /\ UploaderUnchanged
    /\ UNCHANGED <<args, platform, prefix, tree, todo, submitted, size_bytes,
                   human_size>>

(***************************************************************************)
(* main, line 205, after the folder walk.                                  *)
(***************************************************************************)
MainAfterWalk ==
    /\ mpc = "walk_done"
    /\ entry = "main"
    /\ mpc' = "end"
    /\ UploaderUnchanged
    /\ UNCHANGED <<args, platform, prefix, tree, todo, submitted, presigned,
                   size_bytes, human_size>>

Next ==
    \/ UploadFileStart
    \/ UploadFileAttempt
    \/ UploadFileAfterAttempt
    \/ SimpleOpen
    \/ PutObject
    \/ CreateMultipartUpload
    \/ MultipartOpen
    \/ ReadChunk
    \/ UploadPart
    \/ CompleteMultipartUpload
    \/ MultipartExcept
    \/ FormatFileSize
    \/ WalkStart
    \/ WalkNext
    \/ WalkReturn
    \/ MainStart
    \/ MainAfterUpload
    \/ MainAfterWalk

Spec == Init /\ [][Next]_vars

\* The program runs on one thread that takes its next step whenever it has one.
FairSpec == Spec /\ WF_vars(Next)

TypeOK ==
    /\ pc \in {"uf_start", "uf_loop", "uf_after", "sp_open", "sp_put", "mp_create",
               "mp_open", "mp_read", "mp_part", "mp_complete", "mp_except", "done",
               "fmt", "idle"}
    /\ mpc \in {"none", "main", "walk_start", "walk", "walk_call", "walk_done",
                "single_call", "end", "raised"}
    /\ result \in {"none", "True", "False", "raise"}
    /\ attempt \in 0..(MaxRetries + 1)
    /\ pos \in 0..file_size
    /\ human_size.unit \in {"", "B", "KB", "MB", "GB", "TB"}

(***************************************************************************)
(* Vocabulary of the properties. calls holds the requests of the latest    *)
(* strategy invocation, so a property of "an attempt" is stated of the     *)
(* latest one in every state: each attempt is the latest one from its      *)
(* start until the next begins.                                            *)
(***************************************************************************)
\* The latest invocation's requests with operation op.
Ops(op) == SelectSeq(calls, LAMBDA c : c.op = op)

\* The latest strategy invocation has handed control back to its caller.
Returned == invocations >= 1 /\ Len(outcomes) = invocations

\* What it handed back.
Outcome == outcomes[Len(outcomes)]

Ceil(n, c) == (n + c - 1) \div c

\* upload_file returned, after passing its precondition.
UploadFileDone == entry = "upload_file" /\ exists /\ pc = "done"

\* C1: every session a successful initiation created has received a
\* successful completion or an abort with its upload id by the time
\* upload_file_multipart hands control back, whatever the error was.
C1_EverySessionTerminated ==
    Returned
    => \A i \in 1..Len(calls) :
          (calls[i].op = "create_multipart_upload" /\ calls[i].outcome = "ok")
          => \E k \in 1..Len(calls) :
                /\ calls[k].UploadId = calls[i].UploadId
                /\ \/ calls[k].op = "abort_multipart_upload"
                   \/ /\ calls[k].op = "complete_multipart_upload"
                      /\ calls[k].outcome = "ok"

\* C2: an attempt whose upload of chunk k fails with a service error issues
\* exactly one abort, carrying the upload id its own initiation returned, no
\* completion, no upload-part for a chunk after k, and returns failure.
C2_ChunkFailureAbortsOnce ==
    Returned
    => \A i \in 1..Len(calls) :
          (calls[i].op = "upload_part" /\ calls[i].outcome = "ClientError")
          => /\ Len(Ops("abort_multipart_upload")) = 1
             /\ calls[1].op = "create_multipart_upload"
             /\ calls[1].outcome = "ok"
             /\ Len(Ops("create_multipart_upload")) = 1
             /\ Ops("abort_multipart_upload")[1].UploadId = calls[1].UploadId
             /\ calls[1].UploadId # Unbound
             /\ Len(Ops("complete_multipart_upload")) = 0
             /\ \A x \in 1..Len(calls) :
                   (calls[x].op = "upload_part" /\ x # i)
                   => x < i /\ calls[x].PartNumber < calls[i].PartNumber
             /\ Outcome = "False"

C2_Witness ==
    /\ Returned
    /\ Ceil(file_size, chunk_size) = 3
    /\ \E i \in 1..Len(calls) :
          /\ calls[i].op = "upload_part"
          /\ calls[i].outcome = "ClientError"
          /\ calls[i].PartNumber = 2

\* C3: a multipart upload of N bytes in which nothing fails issues exactly
\* ceil(N/chunk_size) upload-part calls numbered 1, 2, ... without gap or
\* repeat, and its one completion call lists exactly those parts, each
\* number with the tag returned for it, in ascending order.
C3_PartsContiguousAndComplete ==
    (Returned /\ Outcome = "True" /\ Len(Ops("create_multipart_upload")) > 0)
    => LET n   == Ceil(file_size, chunk_size)
           ups == Ops("upload_part")
           cmp == Ops("complete_multipart_upload")
       IN  /\ Len(ups) = n
           /\ \A p \in 1..Len(ups) : ups[p].PartNumber = p /\ ups[p].outcome = "ok"
           /\ \A p, q \in 1..Len(ups) : p # q => ups[p].ETag # ups[q].ETag
           /\ Len(cmp) = 1
           /\ cmp[1].Parts = [p \in 1..n |-> [ETag |-> ups[p].ETag, PartNumber |-> p]]
           /\ calls[Len(calls)].op = "complete_multipart_upload"

C3_Witness ==
    /\ pc = "done"
    /\ entry = "upload_file_multipart"
    /\ result = "True"
    /\ file_size = 2 * chunk_size + 1
    /\ Len(Ops("upload_part")) = 3

\* C4: for an existing file and max_retries N >= 1, upload_file invokes the
\* strategy exactly N times and returns failure when every attempt fails,
\* and exactly k times, returning success with no storage call after that
\* success, when the k-th attempt is the first to succeed.
C4_ExactlyNAttempts ==
    /\ (entry = "upload_file" /\ max_retries >= 1 => invocations <= max_retries)
    /\ (UploadFileDone /\ max_retries >= 1)
       => IF \E j \in 1..Len(outcomes) : outcomes[j] = "True"
          THEN /\ result = "True"
               /\ Len(outcomes) = invocations
               /\ outcomes[invocations] = "True"
               /\ \A j \in 1..(invocations - 1) : outcomes[j] # "True"
               /\ calls # <<>>
               /\ calls[Len(calls)].outcome = "ok"
               /\ calls[Len(calls)].op \in {"put_object", "complete_multipart_upload"}
          ELSE /\ result = "False"
               /\ invocations = max_retries
               /\ Len(outcomes) = max_retries

C4_Witness ==
    /\ UploadFileDone
    /\ max_retries = 3
    /\ outcomes = <<"False", "True">>
    /\ result = "True"

\* C5: upload_file takes the multipart path exactly for files larger than
\* 104,857,600 bytes; a file of exactly that size, or smaller, takes the
\* single-request path and never initiates a multipart upload.
C5_StrictSizeThreshold ==
    entry = "upload_file"
    => /\ \A i \in 1..Len(calls) :
             /\ calls[i].op = "put_object" => file_size <= 104857600
             /\ calls[i].op # "put_object" => file_size > 104857600
       /\ pc \in {"sp_open", "sp_put"} => file_size <= 104857600
       /\ pc \in {"mp_create", "mp_open", "mp_read", "mp_part", "mp_complete",
                  "mp_except"} => file_size > 104857600

C5_Witness ==
    /\ entry = "upload_file"
    /\ file_size = 104857600
    /\ pc = "done"
    /\ \E i \in 1..Len(calls) : calls[i].op = "put_object"

\* C6: upload_file on a path that does not exist returns failure at once:
\* no attempt, no request of any kind to the storage service, no retry,
\* whatever max_retries is.
C6_MissingFileIsTerminal ==
    (entry = "upload_file" /\ ~exists)
    => /\ calls = <<>>
       /\ invocations = 0
       /\ outcomes = <<>>
       /\ attempt = 0
       /\ pc \in {"uf_start", "done"}
       /\ pc = "done" => result = "False"

C6_Witness ==
    /\ entry = "upload_file"
    /\ ~exists
    /\ max_retries = 3
    /\ pc = "done"
    /\ result = "False"

\* An attempt's outcome as the retry contract sees it: a raised error is a
\* failure.
Normalised(o) == IF o = "raise" THEN "False" ELSE o

\* C7: in the retry loop a raised error counts exactly like a returned
\* failure: the number of attempts and the boolean result are determined by
\* the outcomes with every raised error read as a returned failure, and no
\* exception escapes upload_file.
C7_RaiseCountsAsFailure ==
    /\ (entry = "upload_file" => result # "raise")
    /\ UploadFileDone
       => LET norm == [j \in 1..Len(outcomes) |-> Normalised(outcomes[j])]
              wins == {j \in 1..Len(norm) : norm[j] = "True"}
          IN  IF wins = {}
              THEN Len(norm) = Max(max_retries, 0) /\ result = "False"
              ELSE wins = {Len(norm)} /\ result = "True"

C7_Witness ==
    /\ UploadFileDone
    /\ max_retries = 3
    /\ outcomes = <<"raise", "False", "raise">>
    /\ result = "False"

\* C8: whenever upload_file exhausts all its attempts without a success, the
\* aggregate 'all attempts failed' line has been logged, whether the final
\* attempt returned failure or raised.
C8_AggregateFailureLogged ==
    (UploadFileDone /\ max_retries >= 1 /\ Len(outcomes) = max_retries
        /\ \A j \in 1..Len(outcomes) : outcomes[j] # "True")
    => \E l \in 1..Len(log) : log[l] = "All attempts failed"

\* The case of C9: the attempt's initiation failed with a service error and
\* the attempt has handed control back.
InitiationFailed ==
    /\ Returned
    /\ calls # <<>>
    /\ calls[1].op = "create_multipart_upload"
    /\ calls[1].outcome = "ClientError"

\* C9, as claimed: when initiation fails with a service error the multipart
\* path issues an abort call to the storage service, issues no upload-part
\* and no completion call, and returns False.
C9_InitiationFailureAborts ==
    InitiationFailed
    => /\ Len(Ops("abort_multipart_upload")) >= 1
       /\ Len(Ops("upload_part")) = 0
       /\ Len(Ops("complete_multipart_upload")) = 0
       /\ Outcome = "False"

\* C9, amended: when initiation fails with a service error the failed
\* initiation is the attempt's only request to the storage service (no abort
\* request is sent, as there is no upload id; no upload-part, no
\* completion), and the multipart path returns False without raising.
C9_InitiationFailureSendsNothing ==
    InitiationFailed
    => /\ Len(calls) = 1
       /\ Len(Ops("abort_multipart_upload")) = 0
       /\ Len(Ops("upload_part")) = 0
       /\ Len(Ops("complete_multipart_upload")) = 0
       /\ Outcome = "False"

C9_Witness ==
    /\ entry = "upload_file_multipart"
    /\ pc = "done"
    /\ InitiationFailed
    /\ result = "False"

\* C10: abort is best-effort: when a multipart attempt failed with a service
\* error and aborts, the attempt returns failure and raises nothing whether
\* the abort call succeeds or fails with any error, and the abort is sent
\* once, as the attempt's last request.
C10_AbortFailureSwallowed ==
    Returned
    => \A i \in 1..Len(calls) :
          calls[i].op = "abort_multipart_upload"
          => /\ Outcome = "False"
             /\ i = Len(calls)
             /\ Len(Ops("abort_multipart_upload")) = 1
             /\ \E x \in 1..(i - 1) : calls[x].outcome = "ClientError"

C10_Witness ==
    /\ entry = "upload_file_multipart"
    /\ pc = "done"
    /\ result = "False"
    /\ \E i \in 1..Len(calls) :
          calls[i].op = "abort_multipart_upload" /\ calls[i].outcome = "Error"

\* C11: the single-request path issues at most one put per attempt and hands
\* failure back, raising nothing, for every error the put can produce, also
\* one that is not of the service-error class.
C11_SimpleNeverRaises ==
    (Returned /\ calls # <<>> /\ calls[1].op = "put_object")
    => /\ Len(calls) = 1
       /\ Outcome \in {"True", "False"}
       /\ calls[1].outcome # "ok" => Outcome = "False"

\* C12: a pre-signed URL is requested only after the single-file upload
\* returned success, with --presigned-url given and --recursive not given;
\* no request is made when the upload failed, the flag was absent or the
\* folder walk was taken.
C12_PresignOnlyAfterSuccess ==
    presigned # <<>>
    => /\ entry = "main"
       /\ args.presigned_url
       /\ ~args.recursive
       /\ pc = "done"
       /\ result = "True"
       /\ outcomes # <<>> /\ Outcome = "True"
       /\ tree = NoTree
       /\ submitted = <<>>
       /\ Len(presigned) = 1

C12_Witness ==
    /\ entry = "main"
    /\ mpc = "end"
    /\ Len(presigned) = 1
    /\ presigned[1].outcome = "ok"
    /\ outcomes = <<"False", "True">>

\* The walk is over.
WalkOver == tree # NoTree /\ mpc \in {"walk_done", "end"}

\* C13: in a folder walk every regular file under the root is submitted to
\* upload_file exactly once, and a file's failure neither halts the walk nor
\* changes which later files are submitted or their keys.
C13_EveryFileSubmittedOnce ==
    /\ \A i, j \in 1..Len(submitted) :
          i # j => submitted[i].path # submitted[j].path
    /\ \A i \in 1..Len(submitted) :
          /\ submitted[i].path \in tree
          /\ submitted[i].key = S3Key(prefix, submitted[i].path, platform)
    /\ WalkOver => {submitted[i].path : i \in 1..Len(submitted)} = tree

C13_Witness ==
    /\ WalkOver
    /\ Len(submitted) = 2
    /\ submitted[1].result = "False"
    /\ submitted[2].result = "True"

\* C14: every upload-part, completion and abort call carries the upload id
\* the initiation of the same attempt returned, never an id issued to an
\* earlier attempt or another file, and one upload_file call initiates at
\* most max_retries sessions.
C14_FreshSessionPerAttempt ==
    /\ \A i \in 1..Len(calls) :
          calls[i].op \in {"upload_part", "complete_multipart_upload",
                           "abort_multipart_upload"}
          => /\ calls[1].op = "create_multipart_upload"
             /\ calls[1].outcome = "ok"
             /\ calls[i].UploadId = calls[1].UploadId
             /\ calls[i].UploadId # Unbound
             /\ calls[i].UploadId \notin prior_ids
    /\ Len(Ops("create_multipart_upload")) <= 1
    /\ entry \in UploadFileCallers => next_id - call_base <= Max(max_retries, 0)

C14_Witness ==
    /\ entry = "upload_folder_recursive"
    /\ Len(submitted) = 2
    /\ Len(outcomes) = 2
    /\ Cardinality(prior_ids) >= 3
    /\ \E i \in 1..Len(calls) : calls[i].op = "abort_multipart_upload"

\* C15: format_file_size returns a unit among B, KB, MB, GB, TB, and the
\* number it prints, with two decimals, is in [0, 1024) unless the unit is
\* TB: it never prints 1024.00 with a smaller unit.
C15_PrintedBelow1024 ==
    (entry = "format_file_size" /\ pc = "done")
    => /\ human_size.unit \in {"B", "KB", "MB", "GB", "TB"}
       /\ human_size.hundredths >= 0
       /\ human_size.unit # "TB" => human_size.hundredths < 102400

\* C16: in a folder walk with prefix P the key of every file is P, one
\* forward slash, and the file's relative path with its components joined by
\* forward slashes, and distinct files get distinct keys.
C16_KeyIsPrefixSlashPath ==
    /\ \A i \in 1..Len(submitted) :
          submitted[i].key = prefix \o <<"/">> \o JoinWith(submitted[i].path, "/")
    /\ \A i, j \in 1..Len(submitted) :
          i # j => submitted[i].key # submitted[j].key

\* C17: within one multipart attempt the requests follow the protocol:
\* initiation first and once, then upload-part calls one at a time numbered
\* 1, 2, ..., then at most one completion, sent only after every chunk's
\* upload-part returned successfully; no upload-part follows a completion or
\* an abort, and no session gets both a successful completion and an abort.
C17_ProtocolOrder ==
    (calls # <<>> /\ calls[1].op # "put_object")
    => /\ calls[1].op = "create_multipart_upload"
       /\ \A i \in 2..Len(calls) :
             /\ calls[i].op \in {"upload_part", "complete_multipart_upload",
                                 "abort_multipart_upload"}
             /\ calls[i].op = "upload_part"
                => /\ calls[i].PartNumber = i - 1
                   /\ \A x \in 1..(i - 1) : calls[x].outcome = "ok"
             /\ calls[i].op = "complete_multipart_upload"
                => /\ i = Ceil(file_size, chunk_size) + 2
                   /\ \A x \in 2..(i - 1) :
                         calls[x].op = "upload_part" /\ calls[x].outcome = "ok"
             /\ calls[i].op = "abort_multipart_upload" => i = Len(calls)
             /\ calls[i].op \in {"complete_multipart_upload", "abort_multipart_upload"}
                => \A x \in (i + 1)..Len(calls) :
                      calls[x].op = "abort_multipart_upload"
       /\ Len(Ops("complete_multipart_upload")) <= 1
       /\ ~ \E i, j \in 1..Len(calls) :
               /\ calls[i].op = "complete_multipart_upload"
               /\ calls[i].outcome = "ok"
               /\ calls[j].op = "abort_multipart_upload"

C17_Witness ==
    /\ Returned
    /\ Len(calls) = 6
    /\ calls[5].op = "complete_multipart_upload"
    /\ calls[5].outcome = "ClientError"
    /\ calls[6].op = "abort_multipart_upload"

\* C18: upload_file always terminates: the chunk loop of an attempt sends at
\* most one upload-part per chunk, there are at most max_retries attempts
\* (none, and failure, when max_retries <= 0), and every call of upload_file
\* returns a boolean.
C18_UploadFileTerminates ==
    /\ [](entry \in UploadFileCallers
          => /\ invocations <= Max(max_retries, 0)
             /\ Len(Ops("upload_part")) <= Ceil(file_size, chunk_size)
             /\ pos <= file_size
             /\ (pc = "done" /\ max_retries <= 0) => result = "False")
    /\ (pc = "uf_start") ~> (pc = "done" /\ result \in {"True", "False"})

C18_Witness ==
    /\ UploadFileDone
    /\ max_retries = 3
    /\ file_size > multipart_threshold
    /\ outcomes = <<"raise", "raise", "False">>
    /\ Len(Ops("upload_part")) = 3

\* C19: in single-file mode the key the pre-signed URL is requested for is
\* the key upload_file stored the object under, whether --key is absent,
\* empty or non-empty.
C19_PresignKeyIsUploadKey ==
    presigned # <<>>
    => /\ calls # <<>>
       /\ presigned[1].Key = calls[Len(calls)].Key
       /\ presigned[1].Key = key
====
